---- MODULE Spec2Model ----
(***************************************************************************)
(* Shop API (practice11_backend): the route handlers of the six revisions  *)
(* of the service found in src/, run against one document store.           *)
(*                                                                         *)
(*   app        src/app.js                 products, query translation     *)
(*   part_003   src/unnamed/part_003       same handlers, env config       *)
(*   part_000   src/unnamed/part_000       + PUT /api/products/:id         *)
(*   part_001   src/unnamed/part_001       + items (user profiles)         *)
(*   part_002a  src/unnamed/part_002:1-392 items (named records)           *)
(*   part_002b  src/unnamed/part_002:394-614 items gated by checkApiKey    *)
(*                                                                         *)
(* The process first runs start(): it connects to the store, assigns the   *)
(* collection handles and listens.  From then on a step is one request     *)
(* handled to completion: every handler makes at most one store call,      *)
(* which the store applies atomically, so the store call is its only       *)
(* effect on shared state and requests that run concurrently behave as     *)
(* their store calls taken in some order.  The request, the response and   *)
(* the store calls of the last request are kept in req, res and calls.     *)
(***************************************************************************)
EXTENDS Integers, Sequences, FiniteSets, TLC

VARIABLES rev, apiKeyEnv, mongoUri, phase, handles, exitCode,
          products, items, nextId, clock, req, res, calls

vars ==
  <<rev, apiKeyEnv, mongoUri, phase, handles, exitCode,
    products, items, nextId, clock, req, res, calls>>

(***************************************************************************)
(* Bounds of the model.                                                    *)
(***************************************************************************)
\* The store hands out at most this many identifiers (inserts, both collections).
MaxIds == 2
\* The identifier strings of the model have this many hexadecimal characters
\* (the store's have 24).
IdLen == 2

(***************************************************************************)
(* JavaScript values.  A string is a sequence of one-character strings.    *)
(***************************************************************************)
JSUndefined == [t |-> "undefined", s |-> <<>>, n |-> 0]
JSNull == [t |-> "null", s |-> <<>>, n |-> 0]
JSNaN == [t |-> "NaN", s |-> <<>>, n |-> 0]
JSInfinity == [t |-> "Infinity", s |-> <<>>, n |-> 0]
JSString(s) == [t |-> "string", s |-> s, n |-> 0]
JSNumber(n) == [t |-> "number", s |-> <<>>, n |-> n]
\* A store identifier (new ObjectId) and a timestamp (new Date), as stored.
OidValue(n) == [t |-> "ObjectId", s |-> <<>>, n |-> n]
DateValue(n) == [t |-> "Date", s |-> <<>>, n |-> n]

\* typeof v
TypeOf(v) ==
  CASE v.t = "undefined" -> "undefined"
    [] v.t = "string" -> "string"
    [] v.t \in {"number", "NaN", "Infinity"} -> "number"
    [] OTHER -> "object"

\* !!v
Truthy(v) ==
  CASE v.t = "string" -> v.s # <<>>
    [] v.t = "number" -> v.n # 0
    [] v.t \in {"undefined", "null", "NaN"} -> FALSE
    [] OTHER -> TRUE

\* v < 0 for a value whose typeof is "number"
IsNegative(v) == v.t = "number" /\ v.n < 0

RECURSIVE TrimStart(_)
TrimStart(s) == IF s # <<>> /\ Head(s) = " " THEN TrimStart(Tail(s)) ELSE s

RECURSIVE TrimEnd(_)
TrimEnd(s) ==
  IF s # <<>> /\ s[Len(s)] = " " THEN TrimEnd(SubSeq(s, 1, Len(s) - 1)) ELSE s

\* String.prototype.trim
Trim(s) == TrimEnd(TrimStart(s))

\* v.trim() throws a TypeError unless v is a string
CanTrim(v) == v.t = "string"

\* What the driver stores for a value: undefined is serialized as null.
Stored(v) == IF v.t = "undefined" THEN JSNull ELSE v

(***************************************************************************)
(* Store identifiers: IdLen hexadecimal characters in a URL, the number    *)
(* they denote in the store.                                               *)
(***************************************************************************)
HexLower == <<"0", "1", "2", "3", "4", "5", "6", "7", "8", "9",
              "a", "b", "c", "d", "e", "f">>
HexUpper == <<"0", "1", "2", "3", "4", "5", "6", "7", "8", "9",
              "A", "B", "C", "D", "E", "F">>

IsHexChar(c) == \E i \in 1..16 : HexLower[i] = c \/ HexUpper[i] = c

HexVal(c) ==
  IF IsHexChar(c)
  THEN (CHOOSE i \in 1..16 : HexLower[i] = c \/ HexUpper[i] = c) - 1
  ELSE 0

\* ObjectId.isValid(id) for the string of a route parameter
ObjectIdIsValid(id) == Len(id) = IdLen /\ \A i \in 1..Len(id) : IsHexChar(id[i])

RECURSIVE HexToNat(_, _)
HexToNat(id, acc) ==
  IF id = <<>> THEN acc ELSE HexToNat(Tail(id), acc * 16 + HexVal(Head(id)))

\* new ObjectId(id): the identifier the hexadecimal string denotes
ObjectId(id) == OidValue(HexToNat(id, 0))

\* The hexadecimal string of the n-th identifier the store generates (n < 16).
HexId(n, digits) == [i \in 1..IdLen |-> IF i = IdLen THEN digits[n + 1] ELSE "0"]

(***************************************************************************)
(* Documents, request bodies and queries.  A field that is absent holds    *)
(* undefined.                                                              *)
(***************************************************************************)
BodyFields == {"name", "price", "category", "username", "email", "age", "createdAt"}
ProductFields == {"_id", "name", "price", "category", "createdAt"}
ItemFields == {"_id", "createdAt"} \cup BodyFields

EmptyBody == [f \in BodyFields |-> JSUndefined]
EmptyProduct == [f \in ProductFields |-> JSUndefined]
EmptyItem == [f \in ItemFields |-> JSUndefined]

\* Object.keys(body)
Keys(body) == {f \in DOMAIN body : body[f] # JSUndefined}

ProductBody(name, price, category) ==
  [EmptyBody EXCEPT !["name"] = name, !["price"] = price, !["category"] = category]

UserBody(username, email, age) ==
  [EmptyBody EXCEPT !["username"] = username, !["email"] = email, !["age"] = age]

NameBody(name) == [EmptyBody EXCEPT !["name"] = name]

EmptyQuery ==
  [category |-> JSUndefined, minPrice |-> JSUndefined,
   sort |-> JSUndefined, fields |-> JSUndefined]

(***************************************************************************)
(* The requests the clients send.                                          *)
(***************************************************************************)
Revisions ==
  {"app", "part_000", "part_001", "part_002a", "part_002b", "part_003"}

\* :id of a URL: the identifiers the store generates in either letter case,
\* a string that is too short and one with a character that is no digit.
IdInputs ==
  {HexId(n, HexLower) : n \in 10..(9 + MaxIds)}
    \cup {HexId(10, HexUpper), <<"a">>, [HexId(10, HexLower) EXCEPT ![1] = "z"]}

\* JSON bodies of POST and PUT /api/products.
ProductBodies ==
  {ProductBody(JSString(<<" ", "a", " ">>), JSNumber(5), JSString(<<"A">>)),
   ProductBody(JSString(<<"b">>), JSNumber(15), JSString(<<"B">>)),
   ProductBody(JSString(<<" ">>), JSNumber(25), JSString(<<"A">>)),
   ProductBody(JSString(<<"a">>), JSString(<<"5">>), JSString(<<"A">>)),
   ProductBody(JSNumber(5), JSNumber(5), JSString(<<"A">>)),
   ProductBody(JSString(<<"a">>), JSNumber(-1), JSString(<<"A">>)),
   ProductBody(JSString(<<>>), JSNumber(15), JSUndefined),
   ProductBody(JSString(<<"b">>), JSUndefined, JSUndefined),
   ProductBody(JSUndefined, JSNumber(0), JSUndefined),
   EmptyBody}

\* Query strings of GET /api/products.
Query(category, minPrice, sort, fields) ==
  [category |-> category, minPrice |-> minPrice, sort |-> sort, fields |-> fields]

Queries ==
  LET A == JSString(<<"A">>)
      ten == JSString(<<"1", "0">>)
      price == JSString(<<"p", "r", "i", "c", "e">>)
      name == JSString(<<"n", "a", "m", "e">>)
      none == JSUndefined
  IN {Query(none, none, none, none),
      Query(A, none, none, none),
      Query(none, ten, none, none),
      Query(A, ten, price, none),
      Query(none, none, price, none),
      Query(none, none, name, none),
      Query(none, none, none, name),
      Query(none, JSString(<<"x">>), none, none)}

\* JSON bodies of POST, PUT and PATCH /api/items.
ItemBodies ==
  {NameBody(JSString(<<" ", "p", " ">>)),
   NameBody(JSNumber(5)),
   UserBody(JSString(<<" ", "u", " ">>), JSString(<<"e">>), JSNumber(30)),
   UserBody(JSString(<<" ", "u", " ">>), JSString(<<"e">>), JSString(<<"x">>)),
   UserBody(JSUndefined, JSUndefined, JSNumber(30)),
   [EmptyBody EXCEPT !["createdAt"] = JSString(<<"x">>)],
   EmptyBody}

\* The x-api-key header (undefined: none is sent) and the API_KEY of the
\* environment (undefined: not set).
ApiKeyInputs ==
  {JSUndefined, JSString(<<>>), JSString(<<"k">>), JSString(<<"x">>)}
ApiKeyEnvs == {JSUndefined, JSString(<<>>), JSString(<<"k">>)}

\* Only part_002b reads the header: the other revisions are sent none.
KeyInputs(r) == IF r = "part_002b" THEN ApiKeyInputs ELSE {JSUndefined}

\* MONGO_URL: the MONGO_URI of the environment (undefined: not set), or the
\* constant of app.js.
MongoUris(r) ==
  IF r = "app" THEN {JSString(<<"m">>)}
  ELSE {JSUndefined, JSString(<<>>), JSString(<<"m">>)}

(***************************************************************************)
(* Routes of each revision.                                                *)
(***************************************************************************)
ProductReadRoutes == {"GET /api/products", "GET /api/products/:id"}
ItemReadRoutes == {"GET /api/items", "GET /api/items/:id"}
ItemMutationRoutes ==
  {"POST /api/items", "PUT /api/items/:id", "PATCH /api/items/:id",
   "DELETE /api/items/:id"}
IdRoutes ==
  {"GET /api/products/:id", "PUT /api/products/:id", "DELETE /api/products/:id",
   "GET /api/items/:id", "PUT /api/items/:id", "PATCH /api/items/:id",
   "DELETE /api/items/:id"}
AllRoutes ==
  ProductReadRoutes \cup ItemReadRoutes \cup ItemMutationRoutes
    \cup {"POST /api/products", "PUT /api/products/:id", "DELETE /api/products/:id"}

Routes(r) ==
  CASE r \in {"app", "part_003"} ->
         ProductReadRoutes \cup {"POST /api/products", "DELETE /api/products/:id"}
    [] r = "part_000" ->
         ProductReadRoutes
           \cup {"POST /api/products", "PUT /api/products/:id", "DELETE /api/products/:id"}
    [] r \in {"part_001", "part_002a"} -> AllRoutes
    [] r = "part_002b" ->
         ProductReadRoutes \cup {"POST /api/products"} \cup ItemReadRoutes
           \cup ItemMutationRoutes

\* The revisions whose handlers are wrapped in try/catch.
Caught(r) == r # "part_002b"

\* Is the store call of the route's handler inside try/catch: of part_002b
\* only GET /api/products is.
Catches(r, op) == Caught(r) \/ op = "GET /api/products"

(***************************************************************************)
(* The document store.                                                     *)
(***************************************************************************)
\* collection.findOne({_id: oid}): the matching documents (none or one)
FindOne(coll, oid) == SelectSeq(coll, LAMBDA d : d["_id"] = oid)

\* collection.deleteOne({_id: oid}): the collection afterwards
DeleteOne(coll, oid) == SelectSeq(coll, LAMBDA d : d["_id"] # oid)

\* updateOne with {upsert: true}: a document is inserted when none matches.
UpdateOneUpsert(coll, oid, set) ==
  IF \E i \in 1..Len(coll) : coll[i]["_id"] = oid
  THEN [i \in 1..Len(coll) |->
          IF coll[i]["_id"] = oid
          THEN [f \in DOMAIN coll[i] |->
                  IF f \in DOMAIN set THEN Stored(set[f]) ELSE coll[i][f]]
          ELSE coll[i]]
  ELSE Append(coll, [f \in {"_id", "createdAt", "name", "price", "category",
                            "username", "email", "age"} |->
                       IF f = "_id" THEN oid
                       ELSE IF f \in DOMAIN set THEN Stored(set[f])
                       ELSE JSUndefined])

\* collection.updateOne({_id: oid}, {$set: set}): the collection afterwards
\* (as it was when no document matches: there is no upsert option);
\* set is a function from the fields it names to their new values
UpdateOne(coll, oid, set) ==
  [i \in 1..Len(coll) |->
     IF coll[i]["_id"] = oid
     THEN [f \in DOMAIN coll[i] |->
             IF f \in DOMAIN set THEN Stored(set[f]) ELSE coll[i][f]]
     ELSE coll[i]]

\* collection.insertOne(doc): the collection afterwards; the store assigns nextId
InsertOne(coll, doc) ==
  Append(coll, [doc EXCEPT !["_id"] = OidValue(nextId)])

\* The status of a request whose store call failed: the catch block answers
\* 500; where there is none the rejection leaves the handler and the client
\* gets either no response (status 0) or the framework's 500.
StoreErrorStatuses(r) == IF Caught(r) THEN {500} ELSE {0, 500}

(***************************************************************************)
(* Requests and responses.                                                 *)
(***************************************************************************)
Request(op, id, key, body, query) ==
  [op |-> op, id |-> id, apiKey |-> key, body |-> body, query |-> query]

NoRequest == Request("", <<>>, JSUndefined, EmptyBody, EmptyQuery)

\* The store calls of a request: the one call its handler made, which the
\* store completed or failed.
Called(fn) == <<[fn |-> fn, ok |-> TRUE]>>
Failed(fn) == <<[fn |-> fn, ok |-> FALSE]>>

\* A response: the status, the documents of its body and, for a list that
\* reports it, the count (-1 otherwise).
Response(status, docs, count) == [status |-> status, docs |-> docs, count |-> count]

\* A handler runs on a request when the server listens and the last
\* exchange is over.
Idle == phase = "listening" /\ req = NoRequest

NoResponse == Response(0, <<>>, -1)

Reply(r, status, docs, count, storeCalls) ==
  /\ req' = r
  /\ res' = Response(status, docs, count)
  /\ calls' = storeCalls

Init ==
  /\ rev \in Revisions
  /\ apiKeyEnv \in (IF rev = "part_002b" THEN ApiKeyEnvs ELSE {JSUndefined})
  /\ mongoUri \in MongoUris(rev)
  /\ phase = "loaded"
  /\ handles = {}
  /\ exitCode = -1
  /\ products = <<>>
  /\ items = <<>>
  /\ nextId = 10
  /\ clock = 1
  /\ req = NoRequest
  /\ res = NoResponse
  /\ calls = <<>>

\* No store write: the collections and the store's counters stay.
NoWrite == UNCHANGED <<products, items, nextId, clock>>

\* What no handler assigns: the configuration and the state of the process.
Config == UNCHANGED <<rev, apiKeyEnv, mongoUri, phase, handles, exitCode>>

(***************************************************************************)
(* start(): connect, assign the collection handles, listen.                *)
(***************************************************************************)
\* The revisions whose start() tests MONGO_URL: app.js has a constant, and
\* part_002b has no test.
ChecksUri(r) == r \notin {"app", "part_002b"}

\* The revisions whose start() is wrapped in try/catch.
StartCatches(r) == r # "part_002b"

\* The handles start() assigns.
StartHandles(r) ==
  IF r \in {"part_001", "part_002a", "part_002b"}
  THEN {"productsCollection", "itemsCollection"}
  ELSE {"productsCollection"}

\* The handle the handler of a route uses.
HandleOf(op) ==
  IF op \in ItemReadRoutes \cup ItemMutationRoutes
  THEN "itemsCollection" ELSE "productsCollection"

\* What start() leaves alone.
StartFrame == UNCHANGED <<rev, apiKeyEnv, mongoUri, products, items, nextId, clock,
                          req, res, calls>>

\* An error thrown in start(): the catch block calls process.exit(1); where
\* there is none the rejection of start() is unhandled, and the runtime
\* either ends the process with an error (code 1) or only warns, and the
\* process, which listens to nothing, ends with code 0.
StartFails ==
  /\ phase' = "exited"
  /\ exitCode' \in (IF StartCatches(rev) THEN {1} ELSE {0, 1})
  /\ UNCHANGED handles

\* The test of MONGO_URL, new MongoClient(MONGO_URL) and await client.connect()
Connect ==
  /\ phase = "loaded"
  /\ IF ChecksUri(rev) /\ ~Truthy(mongoUri)
     THEN \* throw new Error("MONGO_URI is not defined")
          StartFails
     ELSE IF ~Truthy(mongoUri)
     THEN \* the client refuses the connection string
          StartFails
     ELSE \/ StartFails
          \/ phase' = "connected" /\ UNCHANGED <<handles, exitCode>>
  /\ StartFrame

\* productsCollection = db.collection(...); itemsCollection = db.collection(...)
UseDb ==
  /\ phase = "connected"
  /\ handles' = handles \cup StartHandles(rev)
  /\ phase' = "bound"
  /\ UNCHANGED exitCode
  /\ StartFrame

\* app.listen called at any point of start().
CanListenEarly == phase \in {"loaded", "connected", "bound"}

\* app.listen is the statement after the assignments of the handles.
CanListen == phase = "bound"

\* app.listen(PORT, ...)
Listen ==
  /\ CanListen
  /\ phase' = "listening"
  /\ UNCHANGED <<handles, exitCode>>
  /\ StartFrame

(***************************************************************************)
(* GET /api/products: query translation.                                   *)
(***************************************************************************)
IsDigit(c) == \E i \in 1..10 : HexLower[i] = c

RECURSIVE DigitsToNat(_, _)
DigitsToNat(s, acc) ==
  IF s = <<>> THEN acc ELSE DigitsToNat(Tail(s), acc * 10 + HexVal(Head(s)))

\* Number(s) for a string s: blank is 0, decimal digits are their number,
\* any other string here is NaN
ToNumber(s) ==
  LET t == Trim(s) IN
  IF t = <<>> THEN JSNumber(0)
  ELSE IF \A i \in 1..Len(t) : IsDigit(t[i]) THEN JSNumber(DigitsToNat(t, 0))
  ELSE JSNaN

\* The store's {$gte: bound} on a field value: numbers only
MatchesGte(v, bound) ==
  CASE bound.t = "NaN" -> v.t = "NaN"
    [] bound.t = "number" -> (v.t = "number" /\ v.n >= bound.n) \/ v.t = "Infinity"
    [] bound.t = "Infinity" -> v.t = "Infinity"
    [] OTHER -> FALSE

\* filter of GET /api/products: does the document pass it
MatchesFilter(d, q) ==
  /\ Truthy(q.category) => d["category"] = q.category
  /\ Truthy(q.minPrice) => MatchesGte(d["price"], ToNumber(q.minPrice.s))

\* sortOption of GET /api/products: is there a sort key
SortByPrice(q) == q.sort = JSString(<<"p", "r", "i", "c", "e">>)

\* The store's order of values of different kinds, then of numbers.
BsonRank(v) ==
  CASE v.t \in {"undefined", "null"} -> 1
    [] v.t \in {"number", "NaN", "Infinity"} -> 2
    [] v.t = "string" -> 3
    [] OTHER -> 4

BsonLe(a, b) ==
  \/ BsonRank(a) < BsonRank(b)
  \/ /\ BsonRank(a) = BsonRank(b)
     /\ \/ BsonRank(a) # 2
        \/ a.t = "NaN"
        \/ b.t = "Infinity"
        \/ a.t = "number" /\ b.t = "number" /\ a.n <= b.n

\* cursor.sort({price: 1}): every order of the documents that ascends by
\* price (the store does not fix the order of equal prices)
SortedByPrice(docs) ==
  LET n == Len(docs)
      perms == {f \in [1..n -> 1..n] : \A i, j \in 1..n : i # j => f[i] # f[j]}
      asc == {f \in perms :
                \A i \in 1..(n - 1) : BsonLe(docs[f[i]]["price"], docs[f[i + 1]]["price"])}
  IN {[i \in 1..n |-> docs[f[i]]] : f \in asc}

RECURSIVE SplitComma(_, _)
\* s.split(","): cur is the segment being read
SplitComma(s, cur) ==
  IF s = <<>> THEN <<cur>>
  ELSE IF Head(s) = "," THEN <<cur>> \o SplitComma(Tail(s), <<>>)
  ELSE SplitComma(Tail(s), Append(cur, Head(s)))

\* The document field a name of the query string denotes ("" : none).
FieldNamed(seg) ==
  CASE seg = <<"n", "a", "m", "e">> -> "name"
    [] seg = <<"p", "r", "i", "c", "e">> -> "price"
    [] seg = <<"c", "a", "t", "e", "g", "o", "r", "y">> -> "category"
    [] seg = <<"_", "i", "d">> -> "_id"
    [] OTHER -> ""

\* projection of GET /api/products: the fields it names (none: no projection)
Projection(q) ==
  IF Truthy(q.fields)
  THEN LET segs == SplitComma(q.fields.s, <<>>)
       IN {FieldNamed(segs[i]) : i \in 1..Len(segs)}
  ELSE {}

\* The store's inclusion projection: the named fields and the identifier.
Project(d, proj) ==
  IF proj = {} THEN d
  ELSE [f \in DOMAIN d |-> IF f = "_id" \/ f \in proj THEN d[f] ELSE JSUndefined]

\* find(filter, {projection}).sort(sortOption).toArray(): the possible results
FindProducts(q) ==
  LET matching == SelectSeq(products, LAMBDA d : MatchesFilter(d, q))
      ordered == IF SortByPrice(q) THEN SortedByPrice(matching) ELSE {matching}
  IN {[i \in 1..Len(o) |-> Project(o[i], Projection(q))] : o \in ordered}

\* GET /api/products of app.js, part_000 and part_003
GetProductsQuery(r) ==
  \/ Reply(r, 500, <<>>, -1, Failed("find"))
  \/ \E found \in FindProducts(r.query) :
       Reply(r, 200, found, Len(found), Called("find"))

\* GET /api/products of part_001 and part_002: find() without arguments
GetProductsAll(r) ==
  \/ Reply(r, 500, <<>>, -1, Failed("find"))
  \/ Reply(r, 200, products, Len(products), Called("find"))

GetProducts ==
  /\ Idle
  /\ "GET /api/products" \in Routes(rev)
  /\ \E q \in Queries :
       LET r == Request("GET /api/products", <<>>, JSUndefined, EmptyBody, q)
       IN IF rev \in {"app", "part_000", "part_003"}
          THEN GetProductsQuery(r)
          ELSE GetProductsAll(r)
  /\ NoWrite
  /\ Config

(***************************************************************************)
(* GET /api/products/:id                                                   *)
(***************************************************************************)
GetProductById ==
  /\ Idle
  /\ "GET /api/products/:id" \in Routes(rev)
  /\ \E id \in IdInputs :
       LET r == Request("GET /api/products/:id", id, JSUndefined, EmptyBody, EmptyQuery)
           found == FindOne(products, ObjectId(id))
       IN IF ~ObjectIdIsValid(id) THEN Reply(r, 400, <<>>, -1, <<>>)
          ELSE \/ \E st \in StoreErrorStatuses(rev) :
                    Reply(r, st, <<>>, -1, Failed("findOne"))
               \/ IF found = <<>> THEN Reply(r, 404, <<>>, -1, Called("findOne"))
                  ELSE Reply(r, 200, found, -1, Called("findOne"))
  /\ NoWrite
  /\ Config

(***************************************************************************)
(* POST /api/products                                                      *)
(***************************************************************************)
\* if (!name || price === undefined || !category)
MissingProductFields(body) ==
  \/ ~Truthy(body["name"])
  \/ body["price"] = JSUndefined
  \/ ~Truthy(body["category"])

\* The type checks of app.js, part_000 and part_003 (app.js and part_003
\* also test Number.isNaN(price)).
WrongProductTypes(body, nanCheck) ==
  \/ TypeOf(body["name"]) # "string"
  \/ TypeOf(body["category"]) # "string"
  \/ TypeOf(body["price"]) # "number"
  \/ nanCheck /\ body["price"].t = "NaN"
  \/ IsNegative(body["price"])

\* part_001 and part_002 have no type checks.
TypeChecked(r) == r \in {"app", "part_000", "part_003"}

\* newProduct with the strings as they were sent.
NewProductUntrimmed(body) ==
  [EmptyProduct EXCEPT
     !["name"] = body["name"],
     !["price"] = Stored(body["price"]),
     !["category"] = body["category"],
     !["createdAt"] = DateValue(clock)]

\* newProduct: name.trim(), price, category.trim(), new Date()
NewProduct(body) ==
  [EmptyProduct EXCEPT
     !["name"] = JSString(Trim(body["name"].s)),
     !["price"] = Stored(body["price"]),
     !["category"] = JSString(Trim(body["category"].s)),
     !["createdAt"] = DateValue(clock)]

\* The body of the 201 response: the created product, or in part_002b only
\* its identifier.
CreatedBody(r, doc) ==
  IF r = "part_002b"
  THEN [f \in DOMAIN doc |-> IF f = "_id" THEN doc[f] ELSE JSUndefined]
  ELSE doc

PostProducts ==
  /\ Idle
  /\ "POST /api/products" \in Routes(rev)
  /\ \E body \in ProductBodies :
       LET r == Request("POST /api/products", <<>>, JSUndefined, body, EmptyQuery)
       IN IF MissingProductFields(body)
          THEN Reply(r, 400, <<>>, -1, <<>>) /\ NoWrite
          ELSE IF TypeChecked(rev) /\ WrongProductTypes(body, rev # "part_000")
          THEN Reply(r, 400, <<>>, -1, <<>>) /\ NoWrite
          ELSE IF ~(CanTrim(body["name"]) /\ CanTrim(body["category"]))
          THEN \* name.trim() throws before the store is called
               /\ \E st \in StoreErrorStatuses(rev) : Reply(r, st, <<>>, -1, <<>>)
               /\ NoWrite
          ELSE \/ /\ \E st \in StoreErrorStatuses(rev) :
                       Reply(r, st, <<>>, -1, Failed("insertOne"))
                  /\ NoWrite
               \/ /\ nextId < 10 + MaxIds
                  /\ products' = InsertOne(products, NewProduct(body))
                  /\ nextId' = nextId + 1
                  /\ clock' = clock + 1
                  /\ UNCHANGED items
                  /\ Reply(r, 201,
                           <<CreatedBody(rev, products'[Len(products')])>>, -1,
                           Called("insertOne"))
  /\ Config

(***************************************************************************)
(* PUT /api/products/:id                                                   *)
(***************************************************************************)
\* part_000: if (!name && price === undefined && !category)
NoProductField(body) ==
  /\ ~Truthy(body["name"])
  /\ body["price"] = JSUndefined
  /\ ~Truthy(body["category"])

\* part_000: a field that is looked at fails its check
BadProductField(body) ==
  \/ Truthy(body["name"]) /\ TypeOf(body["name"]) # "string"
  \/ Truthy(body["category"]) /\ TypeOf(body["category"]) # "string"
  \/ /\ body["price"] # JSUndefined
     /\ TypeOf(body["price"]) # "number" \/ IsNegative(body["price"])

\* part_000: updateData, the fields the handler copies
UpdateData(body) ==
  [f \in {g \in {"name", "category"} : Truthy(body[g])}
           \cup {g \in {"price"} : body[g] # JSUndefined} |->
     IF f = "price" THEN body[f] ELSE JSString(Trim(body[f].s))]

\* part_001 and part_002a: {$set: {name, price, category}}
UpdateAll(body) == [f \in {"name", "price", "category"} |-> body[f]]

\* The store call and the answer of PUT /api/products/:id, validation passed.
PutProductStore(r, id, set) ==
  \/ Reply(r, 500, <<>>, -1, Failed("updateOne")) /\ NoWrite
  \/ /\ products' = UpdateOne(products, ObjectId(id), set)
     /\ UNCHANGED <<items, nextId, clock>>
     /\ IF FindOne(products, ObjectId(id)) = <<>>   \* result.matchedCount === 0
        THEN Reply(r, 404, <<>>, -1, Called("updateOne"))
        ELSE Reply(r, 200, <<>>, -1, Called("updateOne"))

\* PUT /api/products/:id of part_000
PutProductChecked(r, id, body) ==
  IF ~ObjectIdIsValid(id) THEN Reply(r, 400, <<>>, -1, <<>>) /\ NoWrite
  ELSE IF NoProductField(body) THEN Reply(r, 400, <<>>, -1, <<>>) /\ NoWrite
  ELSE IF BadProductField(body) THEN Reply(r, 400, <<>>, -1, <<>>) /\ NoWrite
  ELSE PutProductStore(r, id, UpdateData(body))

\* PUT /api/products/:id of part_001 and part_002a
PutProductUnchecked(r, id, body) ==
  IF ~ObjectIdIsValid(id) THEN Reply(r, 400, <<>>, -1, <<>>) /\ NoWrite
  ELSE PutProductStore(r, id, UpdateAll(body))

PutProduct ==
  /\ Idle
  /\ "PUT /api/products/:id" \in Routes(rev)
  /\ \E id \in IdInputs, body \in ProductBodies :
       LET r == Request("PUT /api/products/:id", id, JSUndefined, body, EmptyQuery)
       IN IF rev = "part_000"
          THEN PutProductChecked(r, id, body)
          ELSE PutProductUnchecked(r, id, body)
  /\ Config

(***************************************************************************)
(* DELETE /api/products/:id                                                *)
(***************************************************************************)
DeleteProduct ==
  /\ Idle
  /\ "DELETE /api/products/:id" \in Routes(rev)
  /\ \E id \in IdInputs :
       LET r == Request("DELETE /api/products/:id", id, JSUndefined, EmptyBody, EmptyQuery)
       IN IF ~ObjectIdIsValid(id) THEN Reply(r, 400, <<>>, -1, <<>>) /\ NoWrite
          ELSE \/ Reply(r, 500, <<>>, -1, Failed("deleteOne")) /\ NoWrite
               \/ IF FindOne(products, ObjectId(id)) = <<>>
                  THEN Reply(r, 404, <<>>, -1, Called("deleteOne")) /\ NoWrite
                  ELSE /\ products' = DeleteOne(products, ObjectId(id))
                       /\ UNCHANGED <<items, nextId, clock>>
                       /\ Reply(r, 200, <<>>, -1, Called("deleteOne"))
  /\ Config

(***************************************************************************)
(* The access gate of part_002: checkApiKey, attached to the item          *)
(* mutations of part_002b only.                                            *)
(***************************************************************************)
\* checkApiKey without its comparison with the configured secret.
checkApiKeyNoCompare(apiKey, secret) == IF ~Truthy(apiKey) THEN 401 ELSE 0

\* checkApiKey: the status it answers, or 0 when it calls next()
checkApiKey(apiKey, secret) ==
  IF ~Truthy(apiKey) THEN 401
  ELSE IF apiKey # secret THEN 403
  ELSE 0

\* The routes checkApiKey is attached to.
GatedRoutes(r) == IF r = "part_002b" THEN ItemMutationRoutes ELSE {}

\* The gate's answer for a request: 0 when the route has no gate or it passes.
Gate(r, op, apiKey) ==
  IF op \in GatedRoutes(r) THEN checkApiKey(apiKey, apiKeyEnv) ELSE 0

(***************************************************************************)
(* GET /api/items and GET /api/items/:id                                   *)
(***************************************************************************)
GetItems ==
  /\ Idle
  /\ "GET /api/items" \in Routes(rev)
  /\ LET r == Request("GET /api/items", <<>>, JSUndefined, EmptyBody, EmptyQuery)
     IN \/ \E st \in StoreErrorStatuses(rev) : Reply(r, st, <<>>, -1, Failed("find"))
        \/ Reply(r, 200, items, -1, Called("find"))
  /\ NoWrite
  /\ Config

GetItemById ==
  /\ Idle
  /\ "GET /api/items/:id" \in Routes(rev)
  /\ \E id \in IdInputs :
       LET r == Request("GET /api/items/:id", id, JSUndefined, EmptyBody, EmptyQuery)
           found == FindOne(items, ObjectId(id))
       IN IF ~ObjectIdIsValid(id) THEN Reply(r, 400, <<>>, -1, <<>>)
          ELSE \/ \E st \in StoreErrorStatuses(rev) :
                    Reply(r, st, <<>>, -1, Failed("findOne"))
               \/ IF found = <<>> THEN Reply(r, 404, <<>>, -1, Called("findOne"))
                  ELSE Reply(r, 200, found, -1, Called("findOne"))
  /\ NoWrite
  /\ Config

(***************************************************************************)
(* POST /api/items                                                         *)
(***************************************************************************)
\* part_001: if (!username || !email || age === undefined)
MissingUserFields(body) ==
  \/ ~Truthy(body["username"])
  \/ ~Truthy(body["email"])
  \/ body["age"] = JSUndefined

\* part_001: newUser
NewUser(body) ==
  [EmptyItem EXCEPT
     !["username"] = JSString(Trim(body["username"].s)),
     !["email"] = JSString(Trim(body["email"].s)),
     !["age"] = Stored(body["age"]),
     !["createdAt"] = DateValue(clock)]

\* part_002: newItem
NewItem(body) ==
  [EmptyItem EXCEPT
     !["name"] = JSString(Trim(body["name"].s)),
     !["createdAt"] = DateValue(clock)]

\* insertOne into items and the 201 answer, or the store's failure
InsertItem(r, doc) ==
  \/ /\ \E st \in StoreErrorStatuses(rev) : Reply(r, st, <<>>, -1, Failed("insertOne"))
     /\ NoWrite
  \/ /\ nextId < 10 + MaxIds
     /\ items' = InsertOne(items, doc)
     /\ nextId' = nextId + 1
     /\ clock' = clock + 1
     /\ UNCHANGED products
     /\ Reply(r, 201, <<CreatedBody(rev, items'[Len(items')])>>, -1, Called("insertOne"))

\* A TypeError thrown by the handler before the store is called.
Throw(r) ==
  /\ \E st \in StoreErrorStatuses(rev) : Reply(r, st, <<>>, -1, <<>>)
  /\ NoWrite

\* POST /api/items of part_001
PostItemsUser(r) ==
  IF MissingUserFields(r.body) THEN Reply(r, 400, <<>>, -1, <<>>) /\ NoWrite
  ELSE IF TypeOf(r.body["age"]) # "number" THEN Reply(r, 400, <<>>, -1, <<>>) /\ NoWrite
  ELSE IF ~(CanTrim(r.body["username"]) /\ CanTrim(r.body["email"])) THEN Throw(r)
  ELSE InsertItem(r, NewUser(r.body))

\* POST /api/items of part_002a and part_002b
PostItemsNamed(r) ==
  IF ~Truthy(r.body["name"]) THEN Reply(r, 400, <<>>, -1, <<>>) /\ NoWrite
  ELSE IF ~CanTrim(r.body["name"]) THEN Throw(r)
  ELSE InsertItem(r, NewItem(r.body))

PostItems ==
  /\ Idle
  /\ "POST /api/items" \in Routes(rev)
  /\ \E key \in KeyInputs(rev), body \in ItemBodies :
       LET r == Request("POST /api/items", <<>>, key, body, EmptyQuery)
           gate == Gate(rev, r.op, key)
       IN IF gate # 0 THEN Reply(r, gate, <<>>, -1, <<>>) /\ NoWrite
          ELSE IF rev = "part_001" THEN PostItemsUser(r)
          ELSE PostItemsNamed(r)
  /\ Config

(***************************************************************************)
(* PUT and PATCH /api/items/:id                                            *)
(***************************************************************************)
\* updateOne on items and the answer (an update {$set: {}} is either refused
\* by the store, as a failure, or applied to no effect)
UpdateItem(r, set) ==
  \/ /\ \E st \in StoreErrorStatuses(rev) : Reply(r, st, <<>>, -1, Failed("updateOne"))
     /\ NoWrite
  \/ /\ items' = UpdateOne(items, ObjectId(r.id), set)
     /\ UNCHANGED <<products, nextId, clock>>
     /\ IF FindOne(items, ObjectId(r.id)) = <<>>   \* result.matchedCount === 0
        THEN Reply(r, 404, <<>>, -1, Called("updateOne"))
        ELSE Reply(r, 200, <<>>, -1, Called("updateOne"))

\* part_001 PUT: {$set: {username: username.trim(), email: email.trim(), age}}
UserSet(body) ==
  [f \in {"username", "email", "age"} |->
     IF f = "age" THEN body[f] ELSE JSString(Trim(body[f].s))]

\* part_002a PUT and PATCH: {$set: {name: name.trim()}}
NameSet(body) == [f \in {"name"} |-> JSString(Trim(body[f].s))]

\* part_002b PUT: {$set: {name: req.body.name}}
RawNameSet(body) == [f \in {"name"} |-> body[f]]

\* part_001 and part_002b PATCH: {$set: req.body}
BodySet(body) == [f \in Keys(body) |-> body[f]]

\* PUT /api/items/:id of part_001
PutItemUser(r) ==
  IF ~ObjectIdIsValid(r.id) THEN Reply(r, 400, <<>>, -1, <<>>) /\ NoWrite
  ELSE IF MissingUserFields(r.body) THEN Reply(r, 400, <<>>, -1, <<>>) /\ NoWrite
  ELSE IF ~(CanTrim(r.body["username"]) /\ CanTrim(r.body["email"])) THEN Throw(r)
  ELSE UpdateItem(r, UserSet(r.body))

\* PUT and PATCH /api/items/:id of part_002a
PutItemNamed(r) ==
  IF ~ObjectIdIsValid(r.id) THEN Reply(r, 400, <<>>, -1, <<>>) /\ NoWrite
  ELSE IF ~Truthy(r.body["name"]) THEN Reply(r, 400, <<>>, -1, <<>>) /\ NoWrite
  ELSE IF ~CanTrim(r.body["name"]) THEN Throw(r)
  ELSE UpdateItem(r, NameSet(r.body))

\* PUT /api/items/:id of part_002b without its identifier check.
PutItemGatedNoIdCheck(r) == UpdateItem(r, RawNameSet(r.body))

\* PUT /api/items/:id of part_002b
PutItemGated(r) ==
  IF ~ObjectIdIsValid(r.id) THEN Reply(r, 400, <<>>, -1, <<>>) /\ NoWrite
  ELSE UpdateItem(r, RawNameSet(r.body))

\* PATCH /api/items/:id of part_001
PatchItemUser(r) ==
  IF ~ObjectIdIsValid(r.id) THEN Reply(r, 400, <<>>, -1, <<>>) /\ NoWrite
  ELSE IF Keys(r.body) = {} THEN Reply(r, 400, <<>>, -1, <<>>) /\ NoWrite
  ELSE UpdateItem(r, BodySet(r.body))

\* PATCH /api/items/:id of part_002b
PatchItemGated(r) ==
  IF ~ObjectIdIsValid(r.id) THEN Reply(r, 400, <<>>, -1, <<>>) /\ NoWrite
  ELSE UpdateItem(r, BodySet(r.body))

PutItem ==
  /\ Idle
  /\ "PUT /api/items/:id" \in Routes(rev)
  /\ \E id \in IdInputs, key \in KeyInputs(rev), body \in ItemBodies :
       LET r == Request("PUT /api/items/:id", id, key, body, EmptyQuery)
           gate == Gate(rev, r.op, key)
       IN IF gate # 0 THEN Reply(r, gate, <<>>, -1, <<>>) /\ NoWrite
          ELSE IF rev = "part_001" THEN PutItemUser(r)
          ELSE IF rev = "part_002a" THEN PutItemNamed(r)
          ELSE PutItemGated(r)
  /\ Config

PatchItem ==
  /\ Idle
  /\ "PATCH /api/items/:id" \in Routes(rev)
  /\ \E id \in IdInputs, key \in KeyInputs(rev), body \in ItemBodies :
       LET r == Request("PATCH /api/items/:id", id, key, body, EmptyQuery)
           gate == Gate(rev, r.op, key)
       IN IF gate # 0 THEN Reply(r, gate, <<>>, -1, <<>>) /\ NoWrite
          ELSE IF rev = "part_001" THEN PatchItemUser(r)
          ELSE IF rev = "part_002a" THEN PutItemNamed(r)
          ELSE PatchItemGated(r)
  /\ Config

(***************************************************************************)
(* DELETE /api/items/:id                                                   *)
(***************************************************************************)
\* DELETE /api/items/:id of part_001 and part_002a
DeleteItemChecked(r) ==
  IF ~ObjectIdIsValid(r.id) THEN Reply(r, 400, <<>>, -1, <<>>) /\ NoWrite
  ELSE \/ Reply(r, 500, <<>>, -1, Failed("deleteOne")) /\ NoWrite
       \/ IF FindOne(items, ObjectId(r.id)) = <<>>
          THEN Reply(r, 404, <<>>, -1, Called("deleteOne")) /\ NoWrite
          ELSE /\ items' = DeleteOne(items, ObjectId(r.id))
               /\ UNCHANGED <<products, nextId, clock>>
               /\ Reply(r, 204, <<>>, -1, Called("deleteOne"))

\* DELETE /api/items/:id of part_002b: deletedCount is not looked at
DeleteItemGated(r) ==
  IF ~ObjectIdIsValid(r.id) THEN Reply(r, 400, <<>>, -1, <<>>) /\ NoWrite
  ELSE \/ /\ \E st \in StoreErrorStatuses(rev) :
               Reply(r, st, <<>>, -1, Failed("deleteOne"))
          /\ NoWrite
       \/ /\ items' = DeleteOne(items, ObjectId(r.id))
          /\ UNCHANGED <<products, nextId, clock>>
          /\ Reply(r, 204, <<>>, -1, Called("deleteOne"))

DeleteItem ==
  /\ Idle
  /\ "DELETE /api/items/:id" \in Routes(rev)
  /\ \E id \in IdInputs, key \in KeyInputs(rev) :
       LET r == Request("DELETE /api/items/:id", id, key, EmptyBody, EmptyQuery)
           gate == Gate(rev, r.op, key)
       IN IF gate # 0 THEN Reply(r, gate, <<>>, -1, <<>>) /\ NoWrite
          ELSE IF rev = "part_002b" THEN DeleteItemGated(r)
          ELSE DeleteItemChecked(r)
  /\ Config

(***************************************************************************)
(* A request no route of the revision matches: the 404 handler (part_002b  *)
(* has none, and the framework answers 404).                               *)
(***************************************************************************)
NotFound ==
  /\ Idle
  /\ \E op \in AllRoutes \ Routes(rev) :
       \E id \in (IF op \in IdRoutes THEN IdInputs ELSE {<<>>}) :
         Reply(Request(op, id, JSUndefined, EmptyBody, EmptyQuery), 404, <<>>, -1, <<>>)
  /\ NoWrite
  /\ Config

(***************************************************************************)
(* The response has reached the client: the exchange is over.              *)
(***************************************************************************)
Deliver ==
  /\ req # NoRequest
  /\ req' = NoRequest
  /\ res' = NoResponse
  /\ calls' = <<>>
  /\ NoWrite
  /\ Config

Next ==
  \/ Connect
  \/ UseDb
  \/ Listen
  \/ GetProducts
  \/ GetProductById
  \/ PostProducts
  \/ PutProduct
  \/ DeleteProduct
  \/ GetItems
  \/ GetItemById
  \/ PostItems
  \/ PutItem
  \/ PatchItem
  \/ DeleteItem
  \/ NotFound
  \/ Deliver

Spec == Init /\ [][Next]_vars

(***************************************************************************)
(* What the claims speak of.                                               *)
(***************************************************************************)
Success == {200, 201, 204}

\* The last request was routed to a handler of the revision.
Routed == req.op \in Routes(rev)

\* The store completed the call the handler made.
StoreCompleted(cs) == cs # <<>> /\ cs[1].ok

\* The request carries the configured secret.
Authenticated(r) == r.apiKey # JSUndefined /\ r.apiKey = apiKeyEnv

\* The collection a route works on.
CollectionOf(op) ==
  IF op \in {"GET /api/products/:id", "PUT /api/products/:id",
             "DELETE /api/products/:id", "GET /api/products", "POST /api/products"}
  THEN products ELSE items

(***************************************************************************)
(* C1.  Identifier gate.  On every route that addresses one record by id,  *)
(* a request whose id fails the syntactic check is answered 400 and makes  *)
(* no store call.                                                          *)
(***************************************************************************)
C1_IdentifierGate ==
  (Routed /\ req.op \in IdRoutes /\ ~ObjectIdIsValid(req.id))
    => (res.status = 400 /\ calls = <<>>)

\* C1 as amended: such a request makes no store call, and it is answered 400
\* unless the access gate of the route has answered 401 or 403 before the
\* handler ran.
C1_IdentifierGateAfterAccessGate ==
  (Routed /\ req.op \in IdRoutes /\ ~ObjectIdIsValid(req.id))
    => /\ calls = <<>>
       /\ res.status \in {400, 401, 403}
       /\ res.status # 400 =>
            /\ req.op \in GatedRoutes(rev)
            /\ ~(Truthy(req.apiKey) /\ req.apiKey = apiKeyEnv)

C1_Witness ==
  /\ rev = "part_002b"
  /\ req.op = "PUT /api/items/:id"
  /\ ~ObjectIdIsValid(req.id)
  /\ req.apiKey = apiKeyEnv
  /\ res.status = 400

(***************************************************************************)
(* C2.  Access gate decision.  On a gated route a missing header is        *)
(* answered 401, a header that is present but differs from the configured  *)
(* secret 403, and a header equal to the secret lets the request through   *)
(* to the handler; the header and the secret alone decide.                 *)
(***************************************************************************)
C2_AccessGate ==
  (Routed /\ req.op \in GatedRoutes(rev))
    => /\ req.apiKey = JSUndefined => res.status = 401
       /\ (req.apiKey # JSUndefined /\ req.apiKey # apiKeyEnv) => res.status = 403
       /\ (req.apiKey # JSUndefined /\ req.apiKey = apiKeyEnv)
            => res.status \notin {401, 403}

\* C2 as amended: a missing or empty header is answered 401, a non-empty
\* header that differs from the configured secret 403, both without a store
\* call, and a non-empty header equal to the secret lets the request through.
C2_AccessGateEmptyIsMissing ==
  (Routed /\ req.op \in GatedRoutes(rev))
    => /\ (req.apiKey = JSUndefined \/ req.apiKey = JSString(<<>>))
            => (res.status = 401 /\ calls = <<>>)
       /\ (req.apiKey \notin {JSUndefined, JSString(<<>>)} /\ req.apiKey # apiKeyEnv)
            => (res.status = 403 /\ calls = <<>>)
       /\ (req.apiKey \notin {JSUndefined, JSString(<<>>)} /\ req.apiKey = apiKeyEnv)
            => res.status \notin {401, 403}

C2_Witness ==
  /\ rev = "part_002b"
  /\ req.op = "POST /api/items"
  /\ req.apiKey = apiKeyEnv
  /\ res.status = 201

(***************************************************************************)
(* C3.  Item mutations are gated.  In the revisions that have the access   *)
(* gate (part_002), a request to POST /api/items or to PUT, PATCH or       *)
(* DELETE /api/items/:id that does not carry the configured secret is      *)
(* rejected before any store call and leaves the items as they were.       *)
(***************************************************************************)
C3_ItemMutationsGated ==
  [][(/\ rev \in {"part_002a", "part_002b"}
      /\ req'.op \in ItemMutationRoutes
      /\ ~Authenticated(req'))
       => (res'.status \in {401, 403} /\ calls' = <<>> /\ items' = items)]_vars

(***************************************************************************)
(* C4.  Delete idempotence.  DELETE of a valid identifier that the store   *)
(* has issued and that is in no collection any more (its record was        *)
(* deleted) is answered 404 once the store has completed the call, and     *)
(* leaves the collections as they were.                                    *)
(***************************************************************************)
C4_DeleteIdempotent ==
  [][(/\ req'.op \in {"DELETE /api/products/:id", "DELETE /api/items/:id"}
      /\ req'.op \in Routes(rev)
      /\ ObjectIdIsValid(req'.id)
      /\ StoreCompleted(calls')
      /\ ObjectId(req'.id).n < nextId
      /\ FindOne(products, ObjectId(req'.id)) = <<>>
      /\ FindOne(items, ObjectId(req'.id)) = <<>>)
       => (res'.status = 404 /\ products' = products /\ items' = items)]_vars

(***************************************************************************)
(* C5.  Not-found mapping.  On every route that gets, updates or deletes   *)
(* one record, a valid identifier that matches no record is answered 404   *)
(* when the store has completed the call, and a 404 of such a route is     *)
(* answered only then.                                                     *)
(***************************************************************************)
C5_NotFoundMapping ==
  [][(req'.op \in IdRoutes /\ req'.op \in Routes(rev) /\ ObjectIdIsValid(req'.id))
       => LET noMatch == FindOne(CollectionOf(req'.op), ObjectId(req'.id)) = <<>>
          IN /\ (StoreCompleted(calls') /\ noMatch) => res'.status = 404
             /\ res'.status = 404 => (StoreCompleted(calls') /\ noMatch)]_vars

(***************************************************************************)
(* C6.  Product invariant.  Every stored product has a price that is a     *)
(* finite number >= 0, and a name and a category that are strings which    *)
(* are not empty once trimmed.                                             *)
(***************************************************************************)
C6_ProductInvariant ==
  \A i \in 1..Len(products) :
    /\ products[i]["price"].t = "number" /\ products[i]["price"].n >= 0
    /\ \A f \in {"name", "category"} :
         products[i][f].t = "string" /\ Trim(products[i][f].s) # <<>>

(***************************************************************************)
(* C7.  Create Product validation.  POST /api/products is answered 201     *)
(* only for a body whose name is a non-empty string, whose price is a      *)
(* number >= 0 and whose category is a non-empty string, and then it is    *)
(* answered 201 when the store completes the insert; every other body is   *)
(* answered 400 and nothing is inserted.                                   *)
(***************************************************************************)
C7_CreateValidation ==
  [][(req'.op = "POST /api/products" /\ req'.op \in Routes(rev))
       => LET b == req'.body
              valid ==
                /\ b["name"].t = "string" /\ b["name"].s # <<>>
                /\ TypeOf(b["price"]) = "number" /\ ~IsNegative(b["price"])
                /\ b["category"].t = "string" /\ b["category"].s # <<>>
          IN /\ res'.status = 201 <=> (valid /\ StoreCompleted(calls'))
             /\ res'.status = 201 => Len(products') = Len(products) + 1
             /\ ~valid => (res'.status = 400 /\ calls' = <<>> /\ products' = products)]_vars

(***************************************************************************)
(* C8.  Update Product.  PUT /api/products/:id with a valid identifier is  *)
(* answered 400 when none of name, price, category is supplied or when a   *)
(* supplied field fails the check create applies to it; a successful       *)
(* update sets exactly the supplied fields and keeps every other field of  *)
(* the record and every other record.                                      *)
(***************************************************************************)
C8_UpdateProduct ==
  [][(/\ req'.op = "PUT /api/products/:id"
      /\ req'.op \in Routes(rev)
      /\ ObjectIdIsValid(req'.id))
       => LET b == req'.body
              supplied == {f \in {"name", "price", "category"} : b[f] # JSUndefined}
              passes(f) ==
                IF f = "price"
                THEN TypeOf(b[f]) = "number" /\ ~IsNegative(b[f])
                ELSE b[f].t = "string" /\ b[f].s # <<>>
              new(f) == IF f = "price" THEN b[f] ELSE JSString(Trim(b[f].s))
          IN /\ (supplied = {} \/ \E f \in supplied : ~passes(f))
                  => (res'.status = 400 /\ products' = products)
             /\ res'.status = 200 =>
                  /\ Len(products') = Len(products)
                  /\ \A i \in 1..Len(products) :
                       IF products[i]["_id"] = ObjectId(req'.id)
                       THEN \A f \in ProductFields :
                              products'[i][f] =
                                IF f \in supplied THEN new(f) ELSE products[i][f]
                       ELSE products'[i] = products[i]]_vars

(***************************************************************************)
(* C9.  List filtering.  GET /api/products returns exactly the stored      *)
(* products that pass every supplied filter (category equal to the value,  *)
(* price >= the number minPrice denotes), count is the number of products  *)
(* returned, and with no parameter it returns every product in full.       *)
(***************************************************************************)
C9_ListFiltering ==
  (req.op = "GET /api/products" /\ Routed /\ res.status = 200)
    => LET q == req.query
           passes(d) ==
             /\ q.category # JSUndefined => d["category"] = q.category
             /\ q.minPrice # JSUndefined =>
                  /\ d["price"].t = "number"
                  /\ ToNumber(q.minPrice.s).t = "number"
                  /\ d["price"].n >= ToNumber(q.minPrice.s).n
       IN /\ {res.docs[i]["_id"] : i \in 1..Len(res.docs)}
               = {products[i]["_id"] : i \in {k \in 1..Len(products) : passes(products[k])}}
          /\ res.count = Len(res.docs)
          /\ Len(res.docs) = Cardinality({res.docs[i]["_id"] : i \in 1..Len(res.docs)})
          /\ q = EmptyQuery => res.docs = products

(***************************************************************************)
(* C10.  List ordering.  With sort=price the products GET /api/products    *)
(* returns ascend by price; with any other sort, or none, they come in     *)
(* the store's natural order.                                              *)
(***************************************************************************)
C10_ListOrdering ==
  (req.op = "GET /api/products" /\ Routed /\ res.status = 200)
    => LET n == Len(res.docs)
           \* the place of a returned document in the collection
           place(i) == CHOOSE k \in 1..Len(products) :
                         products[k]["_id"] = res.docs[i]["_id"]
           price(i) == products[place(i)]["price"]
       IN IF req.query.sort = JSString(<<"p", "r", "i", "c", "e">>)
          THEN \A i \in 1..(n - 1) : BsonLe(price(i), price(i + 1))
          ELSE \A i \in 1..(n - 1) : place(i) < place(i + 1)

(***************************************************************************)
(* C11.  Projection.  When fields is supplied to GET /api/products, every  *)
(* returned record holds exactly the fields the list names (with the       *)
(* values stored) and the identifier, and no other field; when fields is   *)
(* absent every returned record is the full stored record.                 *)
(***************************************************************************)
C11_Projection ==
  (req.op = "GET /api/products" /\ Routed /\ res.status = 200)
    => \A i \in 1..Len(res.docs) :
         LET d == res.docs[i]
             stored == FindOne(products, d["_id"])
             segs == SplitComma(req.query.fields.s, <<>>)
             named == {FieldNamed(segs[k]) : k \in 1..Len(segs)}
         IN /\ Len(stored) = 1
            /\ IF req.query.fields = JSUndefined
               THEN d = stored[1]
               ELSE \A f \in ProductFields :
                      d[f] = IF f = "_id" \/ f \in named
                             THEN stored[1][f] ELSE JSUndefined

(***************************************************************************)
(* C12.  Create round-trip.  A create of a product that is answered 201    *)
(* stores one new record whose name and category are the input's with the  *)
(* surrounding whitespace removed, whose price is the input's and whose    *)
(* createdAt is the server's time of the request, and it returns the       *)
(* record's identifier in a form that GET /api/products/:id accepts; a     *)
(* GET /api/products/:id with the identifier of a stored record, the       *)
(* store completing the call, is answered 200 with that record as stored.  *)
(***************************************************************************)
C12_CreateRoundTrip ==
  [][/\ (req'.op = "POST /api/products" /\ res'.status = 201)
          => LET id == res'.docs[1]["_id"]
                 url == HexId(id.n, HexLower)
                 stored == FindOne(products', id)
             IN /\ FindOne(products, id) = <<>>
                /\ Len(stored) = 1
                /\ Len(products') = Len(products) + 1
                /\ stored[1]["name"] = JSString(Trim(req'.body["name"].s))
                /\ stored[1]["category"] = JSString(Trim(req'.body["category"].s))
                /\ stored[1]["price"] = req'.body["price"]
                /\ stored[1]["createdAt"] = DateValue(clock)
                /\ url \in IdInputs
                /\ ObjectIdIsValid(url)
                /\ ObjectId(url) = id
     /\ (/\ req'.op = "GET /api/products/:id"
         /\ req'.op \in Routes(rev)
         /\ ObjectIdIsValid(req'.id)
         /\ StoreCompleted(calls')
         /\ FindOne(products, ObjectId(req'.id)) # <<>>)
          => /\ res'.status = 200
             /\ res'.docs = FindOne(products, ObjectId(req'.id))
             /\ products' = products]_vars

\* A product created from " a ", 5, "A" has been read back by its identifier.
C12_Witness ==
  /\ req.op = "GET /api/products/:id"
  /\ res.status = 200
  /\ Len(res.docs) = 1
  /\ res.docs[1]["name"] = JSString(<<"a">>)
  /\ res.docs[1]["price"] = JSNumber(5)
  /\ res.docs[1]["category"] = JSString(<<"A">>)
  /\ res.docs[1]["createdAt"].t = "Date"
  /\ res.docs[1]["_id"] = ObjectId(req.id)

(***************************************************************************)
(* C13.  Validation short-circuit for writes.  On every create and update  *)
(* route, a request whose body fails the presence or type check of a field *)
(* the active shape requires (name, price, category of a product;          *)
(* username, email and age of a user profile; name of a named item; for    *)
(* PATCH, of a field it supplies) is answered with a client error and the  *)
(* store is not called.                                                    *)
(***************************************************************************)
C13_ValidationShortCircuit ==
  [][LET b == req'.body
         text(f) == b[f].t = "string" /\ b[f].s # <<>>
         number(f) == TypeOf(b[f]) = "number"
         passes(f) == IF f \in {"price", "age"} THEN number(f) ELSE text(f)
         shape == IF req'.op \in {"POST /api/products", "PUT /api/products/:id"}
                  THEN {"name", "price", "category"}
                  ELSE IF rev = "part_001" THEN {"username", "email", "age"}
                  ELSE {"name"}
         supplied == {f \in shape : b[f] # JSUndefined}
         invalid ==
           CASE req'.op \in {"POST /api/products", "POST /api/items", "PUT /api/items/:id"}
                  -> \E f \in shape : ~passes(f)
             [] req'.op \in {"PUT /api/products/:id", "PATCH /api/items/:id"}
                  -> supplied = {} \/ \E f \in supplied : ~passes(f)
             [] OTHER -> FALSE
     IN (req'.op \in Routes(rev) /\ invalid)
          => (res'.status \in {400, 401, 403} /\ calls' = <<>>)]_vars

(***************************************************************************)
(* C14.  Error taxonomy.  A request is answered 500 only when the store    *)
(* call of its handler failed (never for a wrong-typed body field or a     *)
(* malformed query parameter), 401 or 403 only by the access gate of a     *)
(* gated route, 404 on a record route only for a valid identifier that     *)
(* matches no record, and an invalid identifier that reaches its handler   *)
(* is answered 400.                                                        *)
(***************************************************************************)
C14_ErrorTaxonomy ==
  Routed =>
    /\ res.status = 500 => (calls # <<>> /\ ~calls[1].ok)
    /\ res.status \in {401, 403} => req.op \in GatedRoutes(rev)
    /\ (res.status = 404 /\ req.op \in IdRoutes) =>
         /\ ObjectIdIsValid(req.id)
         /\ FindOne(CollectionOf(req.op), ObjectId(req.id)) = <<>>
    /\ (req.op \in IdRoutes /\ ~ObjectIdIsValid(req.id)) =>
         res.status \in {400, 401, 403}

(***************************************************************************)
(* C15.  Store failures are contained.  A request whose store call failed  *)
(* is answered 500 by its own handler, which made that one call and no     *)
(* other (no retry); the failure does not leave the handler, and every     *)
(* request a handler took has a response.                                  *)
(***************************************************************************)
C15_StoreFailuresContained ==
  Routed =>
    /\ res.status # 0
    /\ Len(calls) <= 1
    /\ (calls # <<>> /\ ~calls[1].ok) => (res.status = 500 /\ Catches(rev, req.op))

(***************************************************************************)
(* C16.  Startup ordering.  The server listens only with the store         *)
(* connected and the handle of every route of the revision assigned; a     *)
(* request is handled only by a listening server, so the handler of a      *)
(* route never runs with its handle unassigned; and a handle, once         *)
(* assigned, is never assigned again.                                      *)
(***************************************************************************)
C16_StartupOrdering ==
  /\ [](phase = "listening" => {HandleOf(op) : op \in Routes(rev)} \subseteq handles)
  /\ [](req # NoRequest => phase = "listening")
  /\ []((req # NoRequest /\ Routed) => HandleOf(req.op) \in handles)
  /\ [][handles # {} => handles' = handles]_vars
  /\ [][phase' = "listening" => phase \in {"bound", "listening"}]_vars

\* An item has been created through the items handle assigned at startup.
C16_Witness ==
  /\ rev = "part_001"
  /\ phase = "listening"
  /\ req.op = "POST /api/items"
  /\ res.status = 201
  /\ "itemsCollection" \in handles

(***************************************************************************)
(* C17.  Startup failure is fatal.  With the connection string absent or   *)
(* empty the process never connects nor listens, and a process whose       *)
(* start-up failed (no connection string, or the connection refused) has   *)
(* ended with the error exit code.                                         *)
(***************************************************************************)
C17_StartupFailureFatal ==
  /\ ~Truthy(mongoUri) => phase \in {"loaded", "exited"}
  /\ phase = "exited" => (exitCode = 1 /\ handles = {} /\ req = NoRequest)
  /\ exitCode # -1 => phase = "exited"

(***************************************************************************)
(* C18.  Records are created only by the create operation.  An update      *)
(* (PUT or PATCH) of a valid identifier that matches no record leaves      *)
(* both collections as they were and, the store completing the call, is    *)
(* answered 404; a collection gains a record only by a create answered     *)
(* 201, under the identifier the store issues next, and issued             *)
(* identifiers only grow: a record that was deleted is in no collection    *)
(* after any later request, whatever the order in which the store takes    *)
(* an update and a delete of the same identifier.                          *)
(***************************************************************************)
C18_NoUpsert ==
  [][LET Ids(coll) == {coll[i]["_id"] : i \in 1..Len(coll)}
         update == req'.op \in {"PUT /api/products/:id", "PUT /api/items/:id",
                                "PATCH /api/items/:id"}
     IN /\ (/\ update
            /\ req'.op \in Routes(rev)
            /\ ObjectIdIsValid(req'.id)
            /\ FindOne(CollectionOf(req'.op), ObjectId(req'.id)) = <<>>)
             => /\ products' = products
                /\ items' = items
                /\ StoreCompleted(calls') => res'.status = 404
        /\ Ids(products') \ Ids(products) # {} =>
             /\ req'.op = "POST /api/products"
             /\ res'.status = 201
             /\ Ids(products') \ Ids(products) = {OidValue(nextId)}
        /\ Ids(items') \ Ids(items) # {} =>
             /\ req'.op = "POST /api/items"
             /\ res'.status = 201
             /\ Ids(items') \ Ids(items) = {OidValue(nextId)}
        /\ nextId' >= nextId
        /\ \A n \in 10..(nextId - 1) :
             OidValue(n) \notin Ids(products) \cup Ids(items)
               => OidValue(n) \notin Ids(products') \cup Ids(items')]_vars

\* An update of the identifier of a deleted record has been answered 404.
C18_Witness ==
  /\ req.op \in {"PUT /api/products/:id", "PUT /api/items/:id", "PATCH /api/items/:id"}
  /\ Routed
  /\ ObjectIdIsValid(req.id)
  /\ ObjectId(req.id).n < nextId
  /\ FindOne(products, ObjectId(req.id)) = <<>>
  /\ FindOne(items, ObjectId(req.id)) = <<>>
  /\ StoreCompleted(calls)
  /\ res.status = 404

(***************************************************************************)
(* C19.  Update frame.  An update (PUT or PATCH) answered 200 keeps the    *)
(* number of records, changes no record but the one addressed, and in      *)
(* that record changes neither the identifier nor createdAt nor any field  *)
(* outside the client-updatable ones (name, price, category of a product;  *)
(* username, email, age of a user profile; name of a named item), and      *)
(* leaves the other collection as it was.                                  *)
(***************************************************************************)
C19_UpdateFrame ==
  [][(/\ req'.op \in {"PUT /api/products/:id", "PUT /api/items/:id",
                      "PATCH /api/items/:id"}
      /\ req'.op \in Routes(rev)
      /\ res'.status = 200)
       => LET onProducts == req'.op = "PUT /api/products/:id"
              before == IF onProducts THEN products ELSE items
              after == IF onProducts THEN products' ELSE items'
              updatable == IF onProducts THEN {"name", "price", "category"}
                           ELSE IF rev = "part_001" THEN {"username", "email", "age"}
                           ELSE {"name"}
          IN /\ Len(after) = Len(before)
             /\ IF onProducts THEN items' = items ELSE products' = products
             /\ \A i \in 1..Len(before) :
                  IF before[i]["_id"] = ObjectId(req'.id)
                  THEN \A f \in DOMAIN before[i] \ updatable :
                         after[i][f] = before[i][f]
                  ELSE after[i] = before[i]]_vars

(***************************************************************************)
(* C20.  No lost update on disjoint fields.  A PUT /api/products/:id that  *)
(* supplies some of name, price, category and is answered 200 leaves every *)
(* field it does not supply with the value it had, in particular the       *)
(* value another PUT of the same product wrote just before, and gives the  *)
(* fields it supplies their new values; so two such PUTs with disjoint     *)
(* fields, in either order of their store writes, leave both new values.   *)
(***************************************************************************)
C20_NoLostUpdate ==
  [][(/\ req'.op = "PUT /api/products/:id"
      /\ req'.op \in Routes(rev)
      /\ ObjectIdIsValid(req'.id)
      /\ FindOne(products, ObjectId(req'.id)) # <<>>
      /\ StoreCompleted(calls')
      /\ \E f \in {"name", "price", "category"} : req'.body[f] # JSUndefined
      /\ \A f \in {"name", "category"} :
           req'.body[f] # JSUndefined
             => (req'.body[f].t = "string" /\ Trim(req'.body[f].s) # <<>>)
      /\ req'.body["price"] # JSUndefined
           => (req'.body["price"].t = "number" /\ req'.body["price"].n >= 0))
       => LET old == FindOne(products, ObjectId(req'.id))[1]
              new == FindOne(products', ObjectId(req'.id))[1]
          IN /\ res'.status = 200
             /\ \A f \in {"name", "price", "category"} :
                  new[f] = IF req'.body[f] = JSUndefined THEN old[f]
                           ELSE IF f = "price" THEN req'.body[f]
                           ELSE JSString(Trim(req'.body[f].s))]_vars

====
